---- MODULE Spec2Model ----
(***************************************************************************)
(* Model of the parking lot of src/cr1.py: Floor (min-heap and set of free *)
(* spots, one lock per floor) and ParkingLot (ordered floors, the plate -> *)
(* assignments registry, one registry lock), driven by threads that call   *)
(* park_vehicle, leave_vehicle, get_available_spots_per_floor, is_full and *)
(* get_vehicle_location.  Floors and spots are numbered from 0 as in the   *)
(* source; sequences (the heap list, the assignment list) are 1-based.     *)
(***************************************************************************)
EXTENDS Integers, Sequences, FiniteSets, TLC

\* ---------------------------------------------------------------- bounds
\* One caller at a time (Spec): floors, spots per floor, largest spots_needed.
MaxFloors == 2
MaxSpots == 4
MaxNeed == 3
\* Two callers at once (SpecConc).
ConcFloors == 2
ConcSpots == 2
ConcNeed == 2
\* Two callers at once, fairly scheduled (SpecLive).
LiveFloors == 2
LiveSpots == 2
LiveNeed == 1
\* One caller that parks vehicle after vehicle and then lets them leave (SpecFill).
FillFloors == 2
FillSpots == 2
FillNeed == 1

Threads == {1, 2}
Plates == {"P1", "P2"}
NoHolder == 0

VARIABLES num_floors, spots_per_floor, floors, vehicle_map, lock,
          floor_lock, pc, frame, pre, hist

vars == <<num_floors, spots_per_floor, floors, vehicle_map, lock,
          floor_lock, pc, frame, pre, hist>>

\* ------------------------------------------------- vehicle class hierarchy
CarSpots == 1
BikeSpots == 1
TruckSpots == 2

\* A vehicle_type argument: a str (a tuple of characters) or a Vehicle
\* instance, which is all of its spots_needed() as far as the lot can tell.
StrArg(s) == [isStr |-> TRUE, s |-> s, n |-> 0]
ObjArg(n) == [isStr |-> FALSE, s |-> <<>>, n |-> n]

TypeStrings ==
  { <<"C","a","r">>, <<"c","A","r">>, <<"b","i","k","e">>,
    <<"T","r","u","c","k">>, <<"t","R","U","C","K">>, <<"B","u","s">> }

VehicleArgs(maxNeed) == {StrArg(s) : s \in TypeStrings} \cup {ObjArg(n) : n \in 1..maxNeed}

UpperChar(c) ==
  CASE c = "a" -> "A" [] c = "b" -> "B" [] c = "c" -> "C" [] c = "e" -> "E"
    [] c = "i" -> "I" [] c = "k" -> "K" [] c = "r" -> "R" [] c = "s" -> "S"
    [] c = "t" -> "T" [] c = "u" -> "U" [] OTHER -> c

Upper(s) == [k \in 1..Len(s) |-> UpperChar(s[k])]

\* VehicleType[name].value.spots_needed(); 0 stands for the KeyError.
VehicleType(name) ==
  CASE name = <<"B","I","K","E">> -> BikeSpots
    [] name = <<"C","A","R">> -> CarSpots
    [] name = <<"T","R","U","C","K">> -> TruckSpots
    [] OTHER -> 0

\* The spots_needed of the vehicle park_vehicle ends up with (0: KeyError).
ResolveVehicle(vt) == IF vt.isStr THEN VehicleType(Upper(vt.s)) ELSE vt.n

\* ------------------------------------------------------------------ heapq
At(h, k) == h[k + 1]
Put(h, k, v) == [h EXCEPT ![k + 1] = v]

RECURSIVE SiftDown(_, _, _, _)
SiftDown(heap, startpos, pos, newitem) ==
  LET parentpos == (pos - 1) \div 2
  IN IF pos > startpos /\ newitem < At(heap, parentpos)
       THEN SiftDown(Put(heap, pos, At(heap, parentpos)), startpos, parentpos, newitem)
       ELSE Put(heap, pos, newitem)

RECURSIVE SiftUpLoop(_, _, _)
SiftUpLoop(heap, pos, newitem) ==
  LET endpos == Len(heap)
      childpos == 2 * pos + 1
      rightpos == childpos + 1
      c == IF rightpos < endpos /\ ~(At(heap, childpos) < At(heap, rightpos))
             THEN rightpos ELSE childpos
  IN IF childpos < endpos
       THEN SiftUpLoop(Put(heap, pos, At(heap, c)), c, newitem)
       ELSE <<heap, pos>>

SiftUp(heap, pos) ==
  LET r == SiftUpLoop(heap, pos, At(heap, pos))
  IN SiftDown(r[1], pos, r[2], At(heap, pos))

RECURSIVE HeapifyFrom(_, _)
HeapifyFrom(x, i) == IF i < 0 THEN x ELSE HeapifyFrom(SiftUp(x, i), i - 1)

Heapify(x) == HeapifyFrom(x, (Len(x) \div 2) - 1)

\* heappop taking the last item of the list instead of the first.
HeapPopItemLast(heap) == heap[Len(heap)]

\* heappop: the item returned ...
HeapPopItem(heap) == heap[1]

\* ... and the list left behind.
HeapPopRest(heap) ==
  LET lastelt == heap[Len(heap)]
      rest == SubSeq(heap, 1, Len(heap) - 1)
  IN IF rest = <<>> THEN rest ELSE SiftUp(Put(rest, 0, lastelt), 0)

SetMin(S) == CHOOSE x \in S : \A y \in S : x <= y

RECURSIVE Sorted(_)
Sorted(S) == IF S = {} THEN <<>> ELSE <<SetMin(S)>> \o Sorted(S \ {SetMin(S)})

\* ------------------------------------------------------------------ Floor
\* A floor built with one spot more than asked for.
NewFloorExtra(floor_number, spots) ==
  [floor_number |-> floor_number,
   available_spots |-> Heapify([k \in 1..(spots + 1) |-> k - 1]),
   available_set |-> 0..spots]

NewFloor(floor_number, spots) ==
  [floor_number |-> floor_number,
   available_spots |-> Heapify([k \in 1..spots |-> k - 1]),
   available_set |-> 0..(spots - 1)]

\* Indices i of sorted_spots with sorted_spots[i]+1 == sorted_spots[i+1].
PairStarts(sorted_spots) ==
  {k \in 1..(Len(sorted_spots) - 1) : sorted_spots[k] + 1 = sorted_spots[k + 1]}

\* The start the slow path of _occupy_spots returns, -1 when the loop ends.
FindPair(available_set) ==
  LET sorted_spots == Sorted(available_set)
  IN IF PairStarts(sorted_spots) = {} THEN -1
     ELSE sorted_spots[SetMin(PairStarts(sorted_spots))]

\* The spots the slow path takes out of available_set.
PairSpots(start) == {start, start + 1}

\* free_spots with a range that is one too long.
FreeRangeInclusive(start, num_spots) == start..(start + num_spots)

\* range(start, start + num_spots) of free_spots.
FreeRange(start, num_spots) == start..(start + num_spots - 1)

\* The heap rebuilt with every free spot in it twice.
RebuildTwice(available_set) ==
  Heapify(Sorted(available_set) \o Sorted(available_set))

\* sorted(self.available_set) followed by heapify.
Rebuild(available_set) == Heapify(Sorted(available_set))

\* ------------------------------------------------------------ ParkingLot
\* park_vehicle without its duplicate check.
IsParkedNever(vm, plate) == FALSE

IsParked(vm, plate) == plate \in DOMAIN vm

RegistryPut(vm, plate, spots) ==
  [p \in (DOMAIN vm) \cup {plate} |-> IF p = plate THEN spots ELSE vm[p]]

RegistryGet(vm, plate) == IF plate \in DOMAIN vm THEN vm[plate] ELSE <<>>

\* leave_vehicle clearing the registry instead of popping one plate.
RegistryPopClear(vm, plate) == <<>>

RegistryPop(vm, plate) == [p \in (DOMAIN vm) \ {plate} |-> vm[p]]

\* The SpotAssignment list park_vehicle records.
Assignments(floor_number, start, need) ==
  [k \in 1..need |-> [floor |-> floor_number, spot |-> start + k - 1]]

\* A lock that never makes anybody wait.
CanAcquireAlways(holder) == TRUE

CanAcquire(holder) == holder = NoHolder

\* ------------------------------------------------------------- bookkeeping
\* The locals of a call: its arguments (plate, need, i for a floor argument),
\* the loop index i, start, the popped spots, and the value it returns: val
\* for a bool, count for an int, spots for a list of assignments. With them
\* goes seen, which is no local: for a running is_full call it tells whether
\* the lot has been full at some instant since the call began.
IdleFrame == [plate |-> "", need |-> 0, i |-> 0, start |-> -1, spots |-> <<>>,
              val |-> FALSE, count |-> -1, why |-> "none", seen |-> FALSE]
NoPre == [floors |-> <<>>, vehicle_map |-> <<>>]
Snapshot == [floors |-> floors, vehicle_map |-> vehicle_map]
\* The park or leave call that returned last: what it was, what it returned
\* and, for a park that succeeded, the floors as they were before it.
NoHist == [op |-> "none", plate |-> "", val |-> FALSE, floors |-> <<>>]

Goto(t, label, fr) ==
  /\ pc' = [pc EXCEPT ![t] = label]
  /\ frame' = [frame EXCEPT ![t] = fr]

\* Every floor is out of free spots, by its heap or by its set.
AllFull(fl) ==
  \A f \in DOMAIN fl : fl[f].available_spots = <<>> \/ fl[f].available_set = {}

InIsFull(u) ==
  pc[u] = "full_loop" \/ (pc[u] = "query_ret" /\ frame[u].why = "is_full")

\* Goto for a step that has written floors': the is_full calls of the other
\* threads take note of a lot that is full after the step.
GotoFloor(t, label, fr) ==
  /\ pc' = [pc EXCEPT ![t] = label]
  /\ frame' = [u \in Threads |->
                 IF u = t THEN fr
                 ELSE [frame[u] EXCEPT !.seen = @ \/ (InIsFull(u) /\ AllFull(floors'))]]

\* The value is decided; what is left of the call is to hand it to the caller.
Result(t, label, val, why) ==
  Goto(t, label, [frame[t] EXCEPT !.val = val, !.why = why])

\* ParkingLot(num_floors, spots_per_floor), nobody calling yet.
InitLot(maxFloors, maxSpots) ==
  /\ num_floors \in 0..maxFloors
  /\ spots_per_floor \in 0..maxSpots
  /\ floors = [f \in 0..(num_floors - 1) |-> NewFloor(f, spots_per_floor)]
  /\ vehicle_map = <<>>
  /\ lock = NoHolder
  /\ floor_lock = [f \in 0..(num_floors - 1) |-> NoHolder]
  /\ pc = [t \in Threads |-> "idle"]
  /\ frame = [t \in Threads |-> IdleFrame]
  /\ pre = NoPre
  /\ hist = NoHist

Init == InitLot(MaxFloors, MaxSpots)

InitConc == InitLot(ConcFloors, ConcSpots)

InitLive == InitLot(LiveFloors, LiveSpots)

InitFill == InitLot(FillFloors, FillSpots)

LotUnchanged == UNCHANGED <<num_floors, spots_per_floor>>

\* ---------------------------------------------------------- park_vehicle
\* Lines 172-178 with a vehicle_type that resolves; the call is started.
ParkCall(t, p, vt) ==
  /\ pc[t] = "idle"
  /\ ResolveVehicle(vt) # 0
  /\ Goto(t, "park_acquire", [IdleFrame EXCEPT !.plate = p, !.need = ResolveVehicle(vt)])
  /\ UNCHANGED <<floors, vehicle_map, lock, floor_lock, pre, hist>>
  /\ LotUnchanged

\* Lines 173-176: the str is no member of VehicleType.
ParkBadType(t, p, vt) ==
  /\ pc[t] = "idle"
  /\ ResolveVehicle(vt) = 0
  /\ Goto(t, "query_ret", [IdleFrame EXCEPT !.plate = p, !.val = FALSE, !.why = "type"])
  /\ UNCHANGED <<floors, vehicle_map, lock, floor_lock, pre, hist>>
  /\ LotUnchanged

\* Line 180: with self.lock.
ParkAcquire(t) ==
  /\ pc[t] = "park_acquire"
  /\ CanAcquire(lock)
  /\ lock' = t
  /\ pre' = Snapshot
  /\ hist' = hist
  /\ Goto(t, "park_check", frame[t])
  /\ UNCHANGED <<floors, vehicle_map, floor_lock>>
  /\ LotUnchanged

\* Lines 181-182.
ParkDuplicate(t) ==
  /\ pc[t] = "park_check"
  /\ IsParked(vehicle_map, frame[t].plate)
  /\ Result(t, "park_ret", FALSE, "duplicate")
  /\ UNCHANGED <<floors, vehicle_map, lock, floor_lock, pre, hist>>
  /\ LotUnchanged

ParkBegin(t) ==
  /\ pc[t] = "park_check"
  /\ ~IsParked(vehicle_map, frame[t].plate)
  /\ Goto(t, "park_floor", [frame[t] EXCEPT !.i = 0])
  /\ UNCHANGED <<floors, vehicle_map, lock, floor_lock, pre, hist>>
  /\ LotUnchanged

\* Line 195: the loop over the floors is over.
ParkExhausted(t) ==
  /\ pc[t] = "park_floor"
  /\ frame[t].i = num_floors
  /\ Result(t, "park_ret", FALSE, "nospot")
  /\ UNCHANGED <<floors, vehicle_map, lock, floor_lock, pre, hist>>
  /\ LotUnchanged

\* Lines 185-186 and 101: the next floor, and its lock.
ParkTryFloor(t) ==
  /\ pc[t] = "park_floor"
  /\ frame[t].i < num_floors
  /\ CanAcquire(floor_lock[frame[t].i])
  /\ floor_lock' = [floor_lock EXCEPT ![frame[t].i] = t]
  /\ Goto(t, "occ_body", frame[t])
  /\ UNCHANGED <<floors, vehicle_map, lock, pre, hist>>
  /\ LotUnchanged

\* Lines 102-105.
OccupyEmpty(t) ==
  /\ pc[t] = "occ_body"
  /\ frame[t].need = 1
  /\ floors[frame[t].i].available_spots = <<>>
  /\ floor_lock' = [floor_lock EXCEPT ![frame[t].i] = NoHolder]
  /\ Goto(t, "park_after", [frame[t] EXCEPT !.start = -1])
  /\ UNCHANGED <<floors, vehicle_map, lock, pre, hist>>
  /\ LotUnchanged

\* Line 106.
OccupyPop(t) ==
  /\ pc[t] = "occ_body"
  /\ frame[t].need = 1
  /\ floors[frame[t].i].available_spots # <<>>
  /\ floors' = [floors EXCEPT ![frame[t].i].available_spots = HeapPopRest(@)]
  /\ GotoFloor(t, "occ_remove",
          [frame[t] EXCEPT !.start = HeapPopItem(floors[frame[t].i].available_spots)])
  /\ UNCHANGED <<vehicle_map, lock, floor_lock, pre, hist>>
  /\ LotUnchanged

\* Lines 107-108 (remove raises KeyError for a spot that is not in the set).
OccupyRemove(t) ==
  /\ pc[t] = "occ_remove"
  /\ frame[t].start \in floors[frame[t].i].available_set
  /\ floors' = [floors EXCEPT ![frame[t].i].available_set = @ \ {frame[t].start}]
  /\ floor_lock' = [floor_lock EXCEPT ![frame[t].i] = NoHolder]
  /\ GotoFloor(t, "park_after", frame[t])
  /\ UNCHANGED <<vehicle_map, lock, pre, hist>>
  /\ LotUnchanged

\* The slow path giving up with the lowest free spot already taken out.
OccupyPairNoneLeak(t) ==
  /\ pc[t] = "occ_body"
  /\ frame[t].need # 1
  /\ FindPair(floors[frame[t].i].available_set) = -1
  /\ floors' = [floors EXCEPT ![frame[t].i].available_set =
                   IF @ = {} THEN @ ELSE @ \ {SetMin(@)}]
  /\ floor_lock' = [floor_lock EXCEPT ![frame[t].i] = NoHolder]
  /\ GotoFloor(t, "park_after", [frame[t] EXCEPT !.start = -1])
  /\ UNCHANGED <<vehicle_map, lock, pre, hist>>
  /\ LotUnchanged

\* Lines 111-113 and 120: no i with sorted_spots[i]+1 == sorted_spots[i+1].
OccupyPairNone(t) ==
  /\ pc[t] = "occ_body"
  /\ frame[t].need # 1
  /\ FindPair(floors[frame[t].i].available_set) = -1
  /\ floor_lock' = [floor_lock EXCEPT ![frame[t].i] = NoHolder]
  /\ Goto(t, "park_after", [frame[t] EXCEPT !.start = -1])
  /\ UNCHANGED <<floors, vehicle_map, lock, pre, hist>>
  /\ LotUnchanged

\* Lines 111-116.
OccupyPairTake(t) ==
  /\ pc[t] = "occ_body"
  /\ frame[t].need # 1
  /\ FindPair(floors[frame[t].i].available_set) # -1
  /\ floors' = [floors EXCEPT ![frame[t].i].available_set =
                   @ \ PairSpots(FindPair(floors[frame[t].i].available_set))]
  /\ GotoFloor(t, "occ_resort",
          [frame[t] EXCEPT !.start = FindPair(floors[frame[t].i].available_set)])
  /\ UNCHANGED <<vehicle_map, lock, floor_lock, pre, hist>>
  /\ LotUnchanged

\* Lines 117-119.
OccupyResort(t) ==
  /\ pc[t] = "occ_resort"
  /\ floors' = [floors EXCEPT ![frame[t].i].available_spots =
                   Rebuild(floors[frame[t].i].available_set)]
  /\ floor_lock' = [floor_lock EXCEPT ![frame[t].i] = NoHolder]
  /\ GotoFloor(t, "park_after", frame[t])
  /\ UNCHANGED <<vehicle_map, lock, pre, hist>>
  /\ LotUnchanged

\* Lines 187-194, up to the value of the return statement.
ParkRecord(t) ==
  /\ pc[t] = "park_after"
  /\ frame[t].start # -1
  /\ vehicle_map' = RegistryPut(vehicle_map, frame[t].plate,
                       Assignments(floors[frame[t].i].floor_number,
                                   frame[t].start, frame[t].need))
  /\ Result(t, "park_ret", TRUE, "parked")
  /\ UNCHANGED <<floors, lock, floor_lock, pre, hist>>
  /\ LotUnchanged

\* The loop over the floors going two floors on.
ParkAdvanceSkip(t) ==
  /\ pc[t] = "park_after"
  /\ frame[t].start = -1
  /\ Goto(t, "park_floor", [frame[t] EXCEPT !.i = @ + 2])
  /\ UNCHANGED <<floors, vehicle_map, lock, floor_lock, pre, hist>>
  /\ LotUnchanged

\* Line 187 with start == -1: on to the next floor.
ParkAdvance(t) ==
  /\ pc[t] = "park_after"
  /\ frame[t].start = -1
  /\ Goto(t, "park_floor", [frame[t] EXCEPT !.i = @ + 1])
  /\ UNCHANGED <<floors, vehicle_map, lock, floor_lock, pre, hist>>
  /\ LotUnchanged

\* park_vehicle returning with the registry lock still locked.
ParkReturnHold(t) ==
  /\ pc[t] = "park_ret"
  /\ pre' = NoPre
  /\ hist' = [op |-> "park", plate |-> frame[t].plate, val |-> frame[t].val,
              floors |-> IF frame[t].val THEN pre.floors ELSE <<>>]
  /\ Goto(t, "idle", IdleFrame)
  /\ UNCHANGED <<floors, vehicle_map, lock, floor_lock>>
  /\ LotUnchanged

\* The with block of line 180 is left and the caller has the value.
ParkReturn(t) ==
  /\ pc[t] = "park_ret"
  /\ lock' = NoHolder
  /\ pre' = NoPre
  /\ hist' = [op |-> "park", plate |-> frame[t].plate, val |-> frame[t].val,
              floors |-> IF frame[t].val THEN pre.floors ELSE <<>>]
  /\ Goto(t, "idle", IdleFrame)
  /\ UNCHANGED <<floors, vehicle_map, floor_lock>>
  /\ LotUnchanged

ParkStep(t) ==
  \/ ParkAcquire(t) \/ ParkDuplicate(t) \/ ParkBegin(t) \/ ParkExhausted(t)
  \/ ParkTryFloor(t) \/ OccupyEmpty(t) \/ OccupyPop(t) \/ OccupyRemove(t)
  \/ OccupyPairNone(t) \/ OccupyPairTake(t) \/ OccupyResort(t)
  \/ ParkRecord(t) \/ ParkAdvance(t) \/ ParkReturn(t)

\* --------------------------------------------------------- leave_vehicle
LeaveCall(t, p) ==
  /\ pc[t] = "idle"
  /\ Goto(t, "leave_acquire", [IdleFrame EXCEPT !.plate = p])
  /\ UNCHANGED <<floors, vehicle_map, lock, floor_lock, pre, hist>>
  /\ LotUnchanged

\* Line 207: with self.lock.
LeaveAcquire(t) ==
  /\ pc[t] = "leave_acquire"
  /\ CanAcquire(lock)
  /\ lock' = t
  /\ pre' = Snapshot
  /\ hist' = hist
  /\ Goto(t, "leave_pop", frame[t])
  /\ UNCHANGED <<floors, vehicle_map, floor_lock>>
  /\ LotUnchanged

\* Lines 208-210: pop gives None.
LeaveUnknown(t) ==
  /\ pc[t] = "leave_pop"
  /\ RegistryGet(vehicle_map, frame[t].plate) = <<>>
  /\ vehicle_map' = RegistryPop(vehicle_map, frame[t].plate)
  /\ Result(t, "leave_ret", FALSE, "unknown")
  /\ UNCHANGED <<floors, lock, floor_lock, pre, hist>>
  /\ LotUnchanged

\* Lines 208 and 213-214: the entry is popped, start and floor read from it.
LeavePop(t) ==
  /\ pc[t] = "leave_pop"
  /\ RegistryGet(vehicle_map, frame[t].plate) # <<>>
  /\ vehicle_map' = RegistryPop(vehicle_map, frame[t].plate)
  /\ Goto(t, "free_acquire",
          [frame[t] EXCEPT !.spots = RegistryGet(vehicle_map, frame[t].plate),
                           !.start = RegistryGet(vehicle_map, frame[t].plate)[1].spot,
                           !.i = RegistryGet(vehicle_map, frame[t].plate)[1].floor])
  /\ UNCHANGED <<floors, lock, floor_lock, pre, hist>>
  /\ LotUnchanged

\* Lines 215 and 130: free_spots of the recorded floor takes the floor lock.
FreeAcquire(t) ==
  /\ pc[t] = "free_acquire"
  /\ CanAcquire(floor_lock[frame[t].i])
  /\ floor_lock' = [floor_lock EXCEPT ![frame[t].i] = t]
  /\ Goto(t, "free_update", frame[t])
  /\ UNCHANGED <<floors, vehicle_map, lock, pre, hist>>
  /\ LotUnchanged

\* Lines 132-134.
FreeUpdate(t) ==
  /\ pc[t] = "free_update"
  /\ floors' = [floors EXCEPT ![frame[t].i].available_set =
                   @ \cup FreeRange(frame[t].start, Len(frame[t].spots))]
  /\ GotoFloor(t, "free_resort", frame[t])
  /\ UNCHANGED <<vehicle_map, lock, floor_lock, pre, hist>>
  /\ LotUnchanged

\* Lines 135-136 and 216, up to the value of the return statement.
FreeResort(t) ==
  /\ pc[t] = "free_resort"
  /\ floors' = [floors EXCEPT ![frame[t].i].available_spots =
                   Rebuild(floors[frame[t].i].available_set)]
  /\ floor_lock' = [floor_lock EXCEPT ![frame[t].i] = NoHolder]
  /\ GotoFloor(t, "leave_ret", [frame[t] EXCEPT !.val = TRUE, !.why = "left"])
  /\ UNCHANGED <<vehicle_map, lock, pre, hist>>
  /\ LotUnchanged

\* The with block of line 207 is left and the caller has the value.
LeaveReturn(t) ==
  /\ pc[t] = "leave_ret"
  /\ lock' = NoHolder
  /\ pre' = NoPre
  /\ hist' = [op |-> "leave", plate |-> frame[t].plate, val |-> frame[t].val,
              floors |-> <<>>]
  /\ Goto(t, "idle", IdleFrame)
  /\ UNCHANGED <<floors, vehicle_map, floor_lock>>
  /\ LotUnchanged

LeaveStep(t) ==
  \/ LeaveAcquire(t) \/ LeaveUnknown(t) \/ LeavePop(t) \/ FreeAcquire(t)
  \/ FreeUpdate(t) \/ FreeResort(t) \/ LeaveReturn(t)

\* ---------------------------------------------------------------- queries
\* get_available_spots_per_floor: no lock is taken.
AvailableSpots(t, f) ==
  /\ pc[t] = "idle"
  /\ Goto(t, "query_ret",
          [IdleFrame EXCEPT !.i = f, !.why = "available",
             !.count = IF 0 <= f /\ f < num_floors
                       THEN Len(floors[f].available_spots) ELSE -1])
  /\ UNCHANGED <<floors, vehicle_map, lock, floor_lock, pre, hist>>
  /\ LotUnchanged

\* get_vehicle_location: no lock is taken.
VehicleLocation(t, p) ==
  /\ pc[t] = "idle"
  /\ Goto(t, "query_ret",
          [IdleFrame EXCEPT !.plate = p, !.why = "location",
             !.spots = RegistryGet(vehicle_map, p)])
  /\ UNCHANGED <<floors, vehicle_map, lock, floor_lock, pre, hist>>
  /\ LotUnchanged

\* is_full: all(...) looks at the floors one after the other, without a lock.
IsFullCall(t) ==
  /\ pc[t] = "idle"
  /\ Goto(t, "full_loop", [IdleFrame EXCEPT !.i = 0, !.seen = AllFull(floors)])
  /\ UNCHANGED <<floors, vehicle_map, lock, floor_lock, pre, hist>>
  /\ LotUnchanged

\* all(...) going on to the next floor whatever this floor holds.
IsFullNextAny(t) ==
  /\ pc[t] = "full_loop"
  /\ frame[t].i < num_floors
  /\ Goto(t, "full_loop", [frame[t] EXCEPT !.i = @ + 1])
  /\ UNCHANGED <<floors, vehicle_map, lock, floor_lock, pre, hist>>
  /\ LotUnchanged

IsFullNext(t) ==
  /\ pc[t] = "full_loop"
  /\ frame[t].i < num_floors
  /\ floors[frame[t].i].available_spots = <<>>
  /\ Goto(t, "full_loop", [frame[t] EXCEPT !.i = @ + 1])
  /\ UNCHANGED <<floors, vehicle_map, lock, floor_lock, pre, hist>>
  /\ LotUnchanged

IsFullFalse(t) ==
  /\ pc[t] = "full_loop"
  /\ frame[t].i < num_floors
  /\ floors[frame[t].i].available_spots # <<>>
  /\ Result(t, "query_ret", FALSE, "is_full")
  /\ UNCHANGED <<floors, vehicle_map, lock, floor_lock, pre, hist>>
  /\ LotUnchanged

IsFullTrue(t) ==
  /\ pc[t] = "full_loop"
  /\ frame[t].i = num_floors
  /\ Result(t, "query_ret", TRUE, "is_full")
  /\ UNCHANGED <<floors, vehicle_map, lock, floor_lock, pre, hist>>
  /\ LotUnchanged

\* A call that holds no lock hands its value to the caller.
QueryReturn(t) ==
  /\ pc[t] = "query_ret"
  /\ Goto(t, "idle", IdleFrame)
  /\ UNCHANGED <<floors, vehicle_map, lock, floor_lock, pre, hist>>
  /\ LotUnchanged

QueryStep(t) ==
  \/ IsFullCall(t) \/ IsFullNext(t) \/ IsFullFalse(t) \/ IsFullTrue(t)
  \/ \E f \in (-1)..num_floors : AvailableSpots(t, f)
  \/ \E p \in Plates : VehicleLocation(t, p)
  \/ QueryReturn(t)

CallStep(t, args) ==
  \/ \E p \in Plates, vt \in args : ParkCall(t, p, vt)
  \/ \E p \in Plates, vt \in args : ParkBadType(t, p, vt)
  \/ \E p \in Plates : LeaveCall(t, p)

ThreadStep(t, args) == CallStep(t, args) \/ ParkStep(t) \/ LeaveStep(t) \/ QueryStep(t)

\* One caller at a time: every call returns before the next one starts.
Next == ThreadStep(1, VehicleArgs(MaxNeed))

Spec == Init /\ [][Next]_vars

\* Several threads on one lot, their steps interleaved.
NextConc == \E t \in Threads : ThreadStep(t, VehicleArgs(ConcNeed))

SpecConc == InitConc /\ [][NextConc]_vars

\* The shape of stress_test and test_multiple_floors: one caller parks
\* vehicles, of more plates than the lot has spots, and once a vehicle has
\* been asked to leave no vehicle is parked any more.
FillPlates == {"P1", "P2", "P3", "P4", "P5"}

NextFill ==
  \/ /\ hist.op # "leave"
     /\ \E p \in FillPlates, vt \in VehicleArgs(FillNeed) : ParkCall(1, p, vt)
  \/ \E p \in FillPlates : LeaveCall(1, p)
  \/ ParkStep(1)
  \/ LeaveStep(1)

SpecFill == InitFill /\ [][NextFill]_vars

\* What a thread does once its call has started.
RunStep(t) ==
  \/ ParkStep(t) \/ LeaveStep(t)
  \/ IsFullNext(t) \/ IsFullFalse(t) \/ IsFullTrue(t) \/ QueryReturn(t)

\* The threads of the fair runs park and leave one and the same vehicle.
LivePlates == {"P1"}

LiveCallStep(t, args) ==
  \/ \E p \in LivePlates, vt \in args : ParkCall(t, p, vt)
  \/ \E p \in LivePlates, vt \in args : ParkBadType(t, p, vt)
  \/ \E p \in LivePlates : LeaveCall(t, p)

NextLive ==
  \E t \in Threads :
    LiveCallStep(t, VehicleArgs(LiveNeed)) \/ ParkStep(t) \/ LeaveStep(t) \/ QueryStep(t)

\* Fair scheduling: a thread that can go on does, and a thread that finds
\* the registry lock free again and again gets it in the end.
Fairness ==
  \A t \in Threads :
    /\ WF_vars(RunStep(t))
    /\ SF_vars(ParkAcquire(t))
    /\ SF_vars(LeaveAcquire(t))

SpecLive == InitLive /\ [][NextLive]_vars /\ Fairness

\* ================================================================= claims
Elems(seq) == {seq[k] : k \in 1..Len(seq)}
Least(S) == CHOOSE x \in S : \A y \in S : x <= y
SpotsOf(spots) == {<<spots[k].floor, spots[k].spot>> : k \in 1..Len(spots)}
HasRun(S, start, n) == \A k \in 0..(n - 1) : (start + k) \in S
RunStarts(S, n) == {x \in S : HasRun(S, x, n)}
Running(t, label) == pc[t] = label
WasParked(t) == frame[t].plate \in DOMAIN pre.vehicle_map

\* C1: the spot sets of distinct plates of the registry are pairwise disjoint,
\* and no spot of a registry assignment is in the free set of its floor.
C1_AssignedNotFree ==
  /\ \A p, q \in DOMAIN vehicle_map :
       p # q => SpotsOf(vehicle_map[p]) \cap SpotsOf(vehicle_map[q]) = {}
  /\ \A p \in DOMAIN vehicle_map : \A a \in Elems(vehicle_map[p]) :
       a.spot \notin floors[a.floor].available_set

\* C2: a park of a vehicle needing more than one spot, plate not parked,
\* succeeds iff some floor has a run of spots_needed consecutive free spots,
\* and then takes the lowest-start run of the lowest such floor.
C2_MultiSpotPark ==
  \A t \in Threads :
    (Running(t, "park_ret") /\ frame[t].need > 1 /\ ~WasParked(t)) =>
      LET n == frame[t].need
          E == {f \in DOMAIN pre.floors : RunStarts(pre.floors[f].available_set, n) # {}}
      IN /\ frame[t].val <=> (E # {})
         /\ frame[t].val =>
              LET f == Least(E)
                  start == Least(RunStarts(pre.floors[f].available_set, n))
              IN /\ SpotsOf(vehicle_map[frame[t].plate]) = {<<f, start + k>> : k \in 0..(n - 1)}
                 /\ floors[f].available_set =
                      pre.floors[f].available_set \ (start..(start + n - 1))
                 /\ \A g \in DOMAIN floors : g # f => floors[g] = pre.floors[g]

\* C3: occupy(n) of a floor either returns a start with [start, start+n) all
\* free before and exactly those removed, or fails with the free set
\* unchanged and no run of n consecutive free spots on the floor.
C3_OccupyRun ==
  \A t \in Threads :
    Running(t, "park_after") =>
      LET n == frame[t].need
          before == pre.floors[frame[t].i].available_set
          after == floors[frame[t].i].available_set
      IN IF frame[t].start # -1
           THEN /\ HasRun(before, frame[t].start, n)
                /\ after = before \ (frame[t].start..(frame[t].start + n - 1))
           ELSE /\ after = before
                /\ RunStarts(before, n) = {}

\* C4: a successful park of a one-spot vehicle gets the smallest free spot of
\* the lowest floor that has a free spot.
C4_NearestSpot ==
  \A t \in Threads :
    (Running(t, "park_ret") /\ frame[t].val /\ frame[t].need = 1) =>
      LET F == {f \in DOMAIN pre.floors : pre.floors[f].available_set # {}}
      IN /\ F # {}
         /\ vehicle_map[frame[t].plate] =
              <<[floor |-> Least(F), spot |-> Least(pre.floors[Least(F)].available_set)]>>

\* C4 witness: the spot given is below a spot that is still held, so spots
\* were freed out of order before this park.
C4_Witness ==
  \E t \in Threads :
    /\ Running(t, "park_ret") /\ frame[t].val /\ frame[t].need = 1
    /\ \E y \in 0..(spots_per_floor - 1) :
         /\ y > vehicle_map[frame[t].plate][1].spot
         /\ y \notin pre.floors[frame[t].i].available_set

\* C5: of the park calls that threads make at once for one plate, only one
\* gets past the duplicate check: while a call is looking for spots for a
\* plate, or has just recorded them, nobody else has that plate recorded, and
\* the call that finds the plate recorded takes no spot.
C5_OneWinner ==
  \A t \in Threads :
    /\ pc[t] \in {"park_floor", "occ_body", "occ_remove", "occ_resort", "park_after"}
         => frame[t].plate \notin DOMAIN vehicle_map
    /\ (Running(t, "park_ret") /\ frame[t].val) =>
         /\ frame[t].plate \notin DOMAIN pre.vehicle_map
         /\ SpotsOf(vehicle_map[frame[t].plate]) =
              {<<frame[t].i, frame[t].start + k>> : k \in 0..(frame[t].need - 1)}
    /\ (Running(t, "park_ret") /\ ~frame[t].val /\ WasParked(t)) =>
         /\ [f \in DOMAIN floors |-> floors[f].available_set] =
              [f \in DOMAIN pre.floors |-> pre.floors[f].available_set]
         /\ vehicle_map = pre.vehicle_map

\* C5 witness: one thread has parked the plate another thread is waiting to park.
C5_Witness ==
  \E t, u \in Threads :
    /\ t # u
    /\ Running(t, "park_ret") /\ frame[t].val
    /\ Running(u, "park_acquire") /\ frame[u].plate = frame[t].plate

\* C6: park for a plate that is parked returns failure and leaves the
\* registry and every floor as they were, whatever the vehicle kind (a kind
\* that is no vehicle name fails before the lot is looked at).
C6_DuplicatePark ==
  \A t \in Threads :
    /\ (Running(t, "park_ret") /\ WasParked(t)) =>
         /\ frame[t].val = FALSE
         /\ Snapshot = pre
    /\ (Running(t, "query_ret") /\ frame[t].why = "type") => frame[t].val = FALSE

\* C6 witness: a duplicate park has failed although a floor has room for it.
C6_Witness ==
  \E t \in Threads :
    /\ Running(t, "park_ret") /\ WasParked(t) /\ ~frame[t].val
    /\ \E f \in DOMAIN pre.floors :
         RunStarts(pre.floors[f].available_set, frame[t].need) # {}
    /\ \E f \in DOMAIN pre.floors : f > 0 /\ pre.floors[f].available_set # {}

\* C7: a park that fails for want of spots leaves every floor and the
\* registry as they were, and the plate unparked.
C7_FailedParkNoEffect ==
  \A t \in Threads :
    (Running(t, "park_ret") /\ ~frame[t].val /\ ~WasParked(t)) =>
      /\ Snapshot = pre
      /\ frame[t].plate \notin DOMAIN vehicle_map

\* C7 witness: a truck has been turned away from a floor with two free spots.
C7_Witness ==
  \E t \in Threads :
    /\ Running(t, "park_ret") /\ ~frame[t].val /\ ~WasParked(t)
    /\ frame[t].need = 2
    /\ \E f \in DOMAIN floors : Cardinality(floors[f].available_set) >= 2

\* C8: a successful leave removes the plate from the registry and adds to the
\* free set of the recorded floor exactly the recorded spots; the other
\* floors and the other plates are as they were.
C8_LeaveFrame ==
  \A t \in Threads :
    (Running(t, "leave_ret") /\ frame[t].val) =>
      /\ WasParked(t)
      /\ LET spots == pre.vehicle_map[frame[t].plate]
             f == spots[1].floor
         IN /\ DOMAIN vehicle_map = (DOMAIN pre.vehicle_map) \ {frame[t].plate}
            /\ \A q \in DOMAIN vehicle_map : vehicle_map[q] = pre.vehicle_map[q]
            /\ floors[f].available_set =
                 pre.floors[f].available_set \cup {a.spot : a \in Elems(spots)}
            /\ Elems(floors[f].available_spots) = floors[f].available_set
            /\ \A a \in Elems(spots) : a.floor = f
            /\ \A g \in DOMAIN floors : g # f => floors[g] = pre.floors[g]

\* C8 witness: a truck has left a lot of two floors where another plate stays.
C8_Witness ==
  \E t \in Threads :
    /\ Running(t, "leave_ret") /\ frame[t].val
    /\ Len(frame[t].spots) = 2
    /\ num_floors = 2
    /\ vehicle_map # <<>>

\* C9: leave for a plate that is not parked returns failure and changes
\* neither the registry nor a floor; so does a second leave right after a
\* successful one.
C9_UnknownLeave ==
  \A t \in Threads :
    /\ (Running(t, "leave_ret") /\ ~WasParked(t)) =>
         /\ frame[t].val = FALSE
         /\ Snapshot = pre
    /\ (Running(t, "leave_ret") /\ hist.op = "leave" /\ hist.val
          /\ hist.plate = frame[t].plate) =>
         /\ frame[t].val = FALSE
         /\ Snapshot = pre

\* C9 witness: the second of two leaves of a plate has failed while another
\* plate is parked.
C9_Witness ==
  \E t \in Threads :
    /\ Running(t, "leave_ret") /\ ~frame[t].val
    /\ hist.op = "leave" /\ hist.val /\ hist.plate = frame[t].plate
    /\ vehicle_map # <<>>

\* C10: a successful park(p) immediately followed by leave(p) gives every
\* floor the free set, and the available count, it had before the park.
C10_RoundTrip ==
  \A t \in Threads :
    (Running(t, "leave_ret") /\ frame[t].val
       /\ hist.op = "park" /\ hist.val /\ hist.plate = frame[t].plate) =>
      \A f \in DOMAIN floors :
        /\ floors[f].available_set = hist.floors[f].available_set
        /\ Len(floors[f].available_spots) = Len(hist.floors[f].available_spots)

\* C11: locks are taken registry first, then one floor: whoever holds a floor
\* lock holds the registry lock and no second floor lock, nobody waits for
\* the registry lock with a floor lock in hand, some started call can always
\* go on, and under fair scheduling every started call returns.
C11_LockOrder ==
  /\ \A f \in DOMAIN floor_lock :
       floor_lock[f] # NoHolder => lock = floor_lock[f]
  /\ \A t \in Threads :
       /\ Cardinality({f \in DOMAIN floor_lock : floor_lock[f] = t}) <= 1
       /\ pc[t] \in {"park_acquire", "leave_acquire"} =>
            \A f \in DOMAIN floor_lock : floor_lock[f] # t
  /\ (\E t \in Threads : pc[t] # "idle") => \E t \in Threads : ENABLED RunStep(t)

ReadsFloor(t, f) ==
  \/ /\ pc[t] = "idle" /\ pc'[t] = "query_ret"
     /\ frame'[t].why = "available" /\ frame'[t].i = f
  \/ /\ pc[t] = "full_loop" /\ frame[t].i = f
     /\ (pc'[t] # pc[t] \/ frame'[t].i # frame[t].i)

\* C12: no thread reads the free-spot data of a floor while another thread
\* is inside the occupy or free critical section of that floor.
C12_ReadsExcluded ==
  [][\A t \in Threads : \A f \in DOMAIN floors :
       ReadsFloor(t, f) => floor_lock[f] \in {NoHolder, t}]_vars

\* The spots get_available_spots_per_floor reports for floor f in this state.
Available(f) == Len(floors[f].available_spots)
OnlyCars(vm) == \A p \in DOMAIN vm : Len(vm[p]) = 1

\* C13: k one-spot parks of distinct plates into the empty lot, no leave in
\* between, all succeed while k <= F*s and fill the floors in index order
\* (0 below floor k div s, s - k mod s there, s above); the park beyond F*s
\* fails; with every vehicle gone again each floor has s available.
C13_FillInOrder ==
  LET s == spots_per_floor
      k == Cardinality(DOMAIN vehicle_map)
  IN /\ (pc[1] = "idle" /\ hist.op # "leave" /\ OnlyCars(vehicle_map)) =>
          /\ k <= num_floors * s
          /\ \A f \in DOMAIN floors :
               Available(f) =
                 IF s = 0 THEN 0
                 ELSE IF f < k \div s THEN 0
                 ELSE IF f = k \div s THEN s - (k % s)
                 ELSE s
     /\ (pc[1] = "park_ret" /\ hist.op # "leave" /\ frame[1].need = 1
           /\ ~WasParked(1) /\ OnlyCars(pre.vehicle_map)) =>
          (frame[1].val <=> Cardinality(DOMAIN pre.vehicle_map) < num_floors * s)
     /\ (pc[1] = "idle" /\ vehicle_map = <<>>) =>
          \A f \in DOMAIN floors :
            Available(f) = s /\ floors[f].available_set = 0..(s - 1)

\* C13 witness: the lot of 2 floors of 2 spots holds four cars and the
\* fifth car, of a new plate, has just been turned away.
C13_Witness ==
  /\ num_floors = 2 /\ spots_per_floor = 2
  /\ pc[1] = "park_ret" /\ ~frame[1].val /\ frame[1].need = 1
  /\ hist.op # "leave" /\ ~WasParked(1)
  /\ OnlyCars(vehicle_map) /\ Cardinality(DOMAIN vehicle_map) = 4
  /\ \A f \in DOMAIN floors : Available(f) = 0

\* C14: every registry entry has as many assignments as the parked vehicle
\* needs spots, all on one floor of the lot, with consecutive increasing
\* spot indices that each lie in [0, spots_per_floor).
C14_EntriesWellFormed ==
  /\ \A p \in DOMAIN vehicle_map :
       LET e == vehicle_map[p]
       IN /\ Len(e) >= 1
          /\ \A k \in 1..Len(e) :
               /\ e[k].floor = e[1].floor
               /\ e[k].floor \in 0..(num_floors - 1)
               /\ e[k].spot \in 0..(spots_per_floor - 1)
               /\ k > 1 => e[k].spot = e[k - 1].spot + 1
  /\ \A t \in Threads :
       (Running(t, "park_ret") /\ frame[t].val /\ frame[t].plate \in DOMAIN vehicle_map) =>
         Len(vehicle_map[frame[t].plate]) = frame[t].need

\* C15: the free set of every floor is a subset of [0, spots_per_floor).
C15_FreeInRange ==
  \A f \in DOMAIN floors :
    /\ floors[f].available_set \subseteq 0..(spots_per_floor - 1)
    /\ Elems(floors[f].available_spots) \subseteq 0..(spots_per_floor - 1)

\* C16: with one caller, is_full() returns true exactly when every floor has
\* no free spot; so it returns true for a lot of zero floors or of zero spots
\* per floor, and false when a single free spot is left.
C16_IsFullQuiescent ==
  (Running(1, "query_ret") /\ frame[1].why = "is_full") =>
    /\ frame[1].val <=> (\A f \in DOMAIN floors : floors[f].available_set = {})
    /\ (num_floors = 0 \/ spots_per_floor = 0) => frame[1].val

\* C16 witness: is_full() has returned false for a lot whose only free spot
\* is a single one, after a vehicle of a new plate was turned away.
C16_Witness ==
  /\ Running(1, "query_ret") /\ frame[1].why = "is_full" /\ ~frame[1].val
  /\ \E f \in DOMAIN floors :
       /\ Cardinality(floors[f].available_set) = 1
       /\ \A g \in DOMAIN floors \ {f} : floors[g].available_set = {}
  /\ hist.op = "park" /\ ~hist.val /\ hist.plate \notin DOMAIN vehicle_map

\* C17: in a lot built with no floors or with no spots per floor every park
\* call fails, the registry stays empty, and is_full() is true: no floor has
\* a free spot in any state and every is_full() call returns true.
C17_EmptyLot ==
  (num_floors = 0 \/ spots_per_floor = 0) =>
    /\ vehicle_map = <<>>
    /\ \A f \in DOMAIN floors : floors[f].available_spots = <<>>
    /\ \A t \in Threads :
         /\ (Running(t, "park_ret") \/ frame[t].why = "type") => ~frame[t].val
         /\ (Running(t, "query_ret") /\ frame[t].why = "is_full") => frame[t].val

\* C17 witness: a park call has gone through the floors of a lot that has
\* floors without spots and has failed.
C17_Witness ==
  /\ num_floors > 0 /\ spots_per_floor = 0
  /\ Running(1, "park_ret") /\ ~frame[1].val /\ frame[1].why = "nospot"

\* C18: free_spots(start, n) makes the free set the old free set united with
\* [start, start+n), whatever was free before (so the freed indices are free
\* afterwards, already free or not); whenever no call is inside a floor, its
\* heap and its free set hold the same elements, the heap without
\* duplicates; and get_available_spots_per_floor returns the number of
\* distinct free indices.
C18_FreeIsUnion ==
  /\ \A t \in Threads :
       pc[t] \in {"free_resort", "leave_ret"} /\ (Running(t, "leave_ret") => frame[t].val) =>
         LET f == frame[t].i
             range == {x \in 0..(frame[t].start + Len(frame[t].spots)) :
                         /\ frame[t].start <= x
                         /\ x < frame[t].start + Len(frame[t].spots)}
         IN /\ floors[f].available_set = pre.floors[f].available_set \cup range
            /\ range \subseteq floors[f].available_set
  /\ \A f \in DOMAIN floors :
       floor_lock[f] = NoHolder =>
         /\ Elems(floors[f].available_spots) = floors[f].available_set
         /\ Len(floors[f].available_spots) = Cardinality(floors[f].available_set)
  /\ \A t \in Threads :
       (Running(t, "query_ret") /\ frame[t].why = "available"
          /\ frame[t].i \in DOMAIN floors) =>
         frame[t].count = Cardinality(floors[frame[t].i].available_set)

\* C18 witness: free_spots has been given a range with an index that was
\* free already, and the leave has returned.
C18_Witness ==
  /\ Running(1, "leave_ret") /\ frame[1].val
  /\ \E x \in pre.floors[frame[1].i].available_set :
       /\ frame[1].start <= x
       /\ x < frame[1].start + Len(frame[1].spots)

\* C19: when no park or leave is in progress, on every floor the number of
\* free spots plus the number of registry assignments naming that floor is
\* spots_per_floor, whatever the vehicles' spots_needed.
C19_Conservation ==
  (\A t \in Threads : pc[t] = "idle") =>
    \A f \in DOMAIN floors :
      LET held == {<<p, k>> \in (DOMAIN vehicle_map) \X (1..(MaxSpots + MaxNeed)) :
                     k <= Len(vehicle_map[p]) /\ vehicle_map[p][k].floor = f}
      IN Cardinality(floors[f].available_set) + Cardinality(held) = spots_per_floor

\* C20: an is_full() call that returns true while other threads park and
\* leave has seen, at some instant between its start and its return, every
\* floor out of free spots at once.
C20_IsFullLinearizable ==
  \A t \in Threads :
    (Running(t, "query_ret") /\ frame[t].why = "is_full" /\ frame[t].val) =>
      frame[t].seen
====
